---- MODULE Spec2Model ----
(***************************************************************************)
(* Model of the mail_gun campaign runner: main.py (the configurable        *)
(* driver) and email_sender.py (the legacy fixed-column driver).           *)
(*                                                                         *)
(* A cell of the table is <<>> (pandas NaN, an empty cell) or <<s>> (the   *)
(* string s).  Strings are TLA+ strings, read character by character with  *)
(* SubSeq.  Table rows are numbered from 1; the pandas index of row i is   *)
(* i - 1.                                                                  *)
(***************************************************************************)
EXTENDS Integers, Sequences, FiniteSets, TLC

VARIABLES
    file,                   \* the table in storage (config.EXCEL_FILE)
    df,                     \* the DataFrame of the run in progress
    pc,                     \* "idle" (no run in progress) or "loop"
    idx,                    \* position of the row loop, 1..Len(df)+1
    script,                 \* "main" (main.py) or "legacy" (email_sender.py)
    TEST_MODE,              \* config.TEST_MODE of the current run
    MAX_EMAILS_PER_RUN,     \* config.MAX_EMAILS_PER_RUN
    credentials,            \* EMAIL_SENDER and EMAIL_PASSWORD are both set
    pending_emails,         \* main.py line 460
    emails_sent_this_run,
    successful_emails,
    failed_emails,
    runs,                   \* number of runs started so far
    runLimit,               \* number of runs the behaviour may start
    lastEnd,                \* how the last run ended
    loaded,                 \* history: the DataFrame as loaded by the run
    log,                    \* history: the send_personalized_email calls of the run
    sleeps,                 \* history: the rows the run slept after (time.sleep)
    delivered,              \* history: per row, messages accepted by sendmail, all runs
    connections,            \* history: per row, SMTP connections opened, all runs
    saves,                  \* history: writes of the table to storage in the run
    headers,                \* the column headers of the table in storage
    COLUMNS,                \* config.COLUMNS, logical name -> column header
    EXCEL_FILE,             \* config.EXCEL_FILE, the path of the table
    fileExists,             \* os.path.exists(config.EXCEL_FILE)
    input_row,              \* the row a message is built for
    email_template,         \* the text of the template file
    EMAIL_SUBJECT,          \* config.EMAIL_SUBJECT
    filesystem,             \* the attachments folder and the files around it
    msg                     \* the message built for input_row, or the call's failure

vars == <<file, df, pc, idx, script, TEST_MODE, MAX_EMAILS_PER_RUN, credentials,
          pending_emails, emails_sent_this_run, successful_emails, failed_emails,
          runs, runLimit, lastEnd, loaded, log, sleeps, delivered, connections,
          saves, headers, COLUMNS, EXCEL_FILE, fileExists,
          input_row, email_template, EMAIL_SUBJECT, filesystem, msg>>

\* The table's place in storage and its layout.
storageVars == <<headers, COLUMNS, EXCEL_FILE, fileExists>>

\* The inputs and the result of building one message.
messageVars == <<input_row, email_template, EMAIL_SUBJECT, filesystem, msg>>

(***************************************************************************)
(* Bounds of the model.                                                    *)
(***************************************************************************)
MaxRows == 3
MaxCap == 2
MaxRuns == 2
MaxRowsRepeated == 2
MaxRowsStorage == 2
MaxEntries == 2

(***************************************************************************)
(* Cells and strings.                                                      *)
(***************************************************************************)
NaN == <<>>

Cell(s) == <<s>>

isna(c) == c = NaN

\* Python's str() of a cell: str(float('nan')) is 'nan'.
str(c) == IF isna(c) THEN "nan" ELSE c[1]

CharAt(s, i) == SubSeq(s, i, i)

Whitespace == {" "}

RECURSIVE lstrip(_)
lstrip(s) ==
    IF Len(s) > 0 /\ CharAt(s, 1) \in Whitespace
    THEN lstrip(SubSeq(s, 2, Len(s)))
    ELSE s

RECURSIVE rstrip(_)
rstrip(s) ==
    IF Len(s) > 0 /\ CharAt(s, Len(s)) \in Whitespace
    THEN rstrip(SubSeq(s, 1, Len(s) - 1))
    ELSE s

strip(s) == rstrip(lstrip(s))

\* s.split(','): the pieces between the commas, empty pieces kept.
RECURSIVE split(_, _)
split(s, piece) ==
    IF Len(s) = 0 THEN <<piece>>
    ELSE IF CharAt(s, 1) = ","
         THEN <<piece>> \o split(SubSeq(s, 2, Len(s)), "")
         ELSE split(SubSeq(s, 2, Len(s)), piece \o CharAt(s, 1))

\* str.endswith(suffix).
endswith(s, suffix) ==
    /\ Len(s) >= Len(suffix)
    /\ SubSeq(s, Len(s) - Len(suffix) + 1, Len(s)) = suffix

LowerCase == "abcdefghijklmnopqrstuvwxyz"

UpperCase == "ABCDEFGHIJKLMNOPQRSTUVWXYZ"

\* The character each character of `from` turns into: the one at its place in `to`.
CaseMap(from, to) ==
    [c \in {CharAt(from, k) : k \in 1..Len(from)} |->
        CharAt(to, CHOOSE k \in 1..Len(from) : CharAt(from, k) = c)]

ToUpper == CaseMap(LowerCase, UpperCase)

ToLower == CaseMap(UpperCase, LowerCase)

\* The characters of s, each one in the domain of the map replaced by its image.
RECURSIVE Translate(_, _)
Translate(s, map) ==
    IF Len(s) = 0 THEN ""
    ELSE LET c == CharAt(s, 1)
         IN  (IF c \in DOMAIN map THEN map[c] ELSE c)
                 \o Translate(SubSeq(s, 2, Len(s)), map)

\* str.upper() and str.lower().
upper(s) == Translate(s, ToUpper)

lower(s) == Translate(s, ToLower)

\* str.replace(old, new): every occurrence of old, from the left, not overlapping.
RECURSIVE replace(_, _, _)
replace(s, old, new) ==
    IF Len(s) < Len(old) \/ Len(old) = 0 THEN s
    ELSE IF SubSeq(s, 1, Len(old)) = old
         THEN new \o replace(SubSeq(s, Len(old) + 1, Len(s)), old, new)
         ELSE CharAt(s, 1) \o replace(SubSeq(s, 2, Len(s)), old, new)

\* ', '.join(items).
RECURSIVE join(_)
join(items) ==
    IF items = <<>> THEN ""
    ELSE IF Len(items) = 1 THEN items[1]
    ELSE items[1] \o ", " \o join(Tail(items))

\* Python's truth value of a cell: NaN is a non-zero float and so true, a
\* string is true unless it is empty.
truthy(c) == isna(c) \/ c[1] # ""

Letters ==
    {"a", "b", "c", "d", "e", "f", "g", "h", "i", "j", "k", "l", "m",
     "n", "o", "p", "q", "r", "s", "t", "u", "v", "w", "x", "y", "z",
     "A", "B", "C", "D", "E", "F", "G", "H", "I", "J", "K", "L", "M",
     "N", "O", "P", "Q", "R", "S", "T", "U", "V", "W", "X", "Y", "Z"}

Digits == {"0", "1", "2", "3", "4", "5", "6", "7", "8", "9"}

LocalChars == Letters \cup Digits \cup {".", "_", "%", "+", "-"}

DomainChars == Letters \cup Digits \cup {".", "-"}

AllIn(s, lo, hi, chars) == \A k \in lo..hi : CharAt(s, k) \in chars

\* re.match(r'^[a-zA-Z0-9._%+-]+@[a-zA-Z0-9.-]+\.[a-zA-Z]{2,}$', email.strip()):
\* at is the place of the '@', dot the place of the last '.'.
validate_email(email) ==
    LET s == strip(email)
        n == Len(s)
    IN  \E at \in 2..n : \E dot \in (at + 2)..(n - 2) :
            /\ CharAt(s, at) = "@"
            /\ CharAt(s, dot) = "."
            /\ AllIn(s, 1, at - 1, LocalChars)
            /\ AllIn(s, at + 1, dot - 1, DomainChars)
            /\ AllIn(s, dot + 1, n, Letters)

StripAll(seq) == [k \in 1..Len(seq) |-> strip(seq[k])]

\* Faulty variant of ValidOnly: one invalid entry and the whole list is dropped.
ValidOnly_AllOrNothing(emails) ==
    IF \A k \in 1..Len(emails) : emails[k] = "" \/ validate_email(emails[k])
    THEN SelectSeq(emails, LAMBDA email : email # "")
    ELSE <<>>

RECURSIVE ValidOnly(_)
ValidOnly(emails) ==
    IF emails = <<>> THEN <<>>
    ELSE LET email == Head(emails)
         IN  IF email # "" /\ validate_email(email)
             THEN <<email>> \o ValidOnly(Tail(emails))
             ELSE ValidOnly(Tail(emails))

parse_email_list(email_string) ==
    IF isna(email_string) \/ strip(str(email_string)) = ""
    THEN <<>>
    ELSE ValidOnly(StripAll(split(str(email_string), "")))

(***************************************************************************)
(* The environment of one send_personalized_email call: whether building   *)
(* the message raises (an exception of lines 250-286 that no handler turns *)
(* into a status, such as os.listdir failing at line 275), and the step of *)
(* the SMTP session that fails ("none": the session succeeds).             *)
(***************************************************************************)
SMTPSteps == {"login", "quit"}

Environments == [build : {"ok", "raise"}, smtp : SMTPSteps \cup {"none"}]

\* str(e) of the exception the failing step raises.
ErrorText(step) ==
    CASE step = "SMTP" -> "Connection refused"
      [] step = "login" -> "Authentication failed"
      [] step = "sendmail" -> "Recipients refused"
      [] step = "quit" -> "Connection closed"

\* sendmail has accepted the message once the session got past it.
Accepted(step) == step \in {"quit", "none"}

\* datetime.now().strftime("%Y-%m-%d %H:%M:%S") during run r (one day per run).
strftime(r) == "2026-11-0" \o CharAt("123456789", r) \o " 10:00:00"

(***************************************************************************)
(* main.py, send_personalized_email.  The outcome of a call: raised (an    *)
(* exception left the function), result (the tuple returned), opened (an   *)
(* SMTP connection was opened), accepted (sendmail accepted the message).  *)
(***************************************************************************)
Raised == [raised |-> TRUE, result |-> <<>>, opened |-> FALSE, accepted |-> FALSE]

Returned(result, opened, accepted) ==
    [raised |-> FALSE, result |-> result, opened |-> opened, accepted |-> accepted]

NoValidTo == "No valid TO email addresses"

\* Faulty variant of TestModeStatus: a status text that pandas reads back as NaN.
TestModeStatus_ReadAsNaN == "N/A"

TestModeStatus == "Test mode - not sent"

SentStatus == "Sent successfully"

\* Faulty variant of TestModeBranch: the preview branch is never taken.
TestModeBranch_Ignored(test_mode) == FALSE

\* Lines 288-304: the preview branch.
TestModeBranch(test_mode) == test_mode

\* Faulty variant of SendOverSMTP: no try/except around the session, a failing
\* step raises out of the function.
SendOverSMTP_NoExcept(env, now) ==
    IF env.smtp = "none"
    THEN Returned(<<TRUE, SentStatus, strftime(now)>>, TRUE, TRUE)
    ELSE [raised |-> TRUE, result |-> <<>>, opened |-> TRUE,
          accepted |-> Accepted(env.smtp)]

\* Lines 306-326: the SMTP session inside try/except Exception.
SendOverSMTP(env, now) ==
    IF env.smtp = "none"
    THEN Returned(<<TRUE, SentStatus, strftime(now)>>, TRUE, TRUE)
    ELSE Returned(<<FALSE, "Failed: " \o ErrorText(env.smtp), "">>,
                  TRUE, Accepted(env.smtp))

\* Line 239: EMAIL_SENDER or EMAIL_PASSWORD is not set.
CredentialsMissing(creds) == ~creds

\* Faulty variant of NoRecipients: the check of line 247 is missing.
NoRecipients_Unchecked(to_emails) == FALSE

\* Line 247: no address of the TO cell passed validation.
NoRecipients(to_emails) == to_emails = <<>>

send_personalized_email(row_data, test_mode, creds, env, now) ==
    IF CredentialsMissing(creds) THEN Raised                 \* lines 239-240
    ELSE LET to_emails == parse_email_list(row_data.to)
         IN  IF NoRecipients(to_emails)
             THEN Returned(<<FALSE, NoValidTo>>, FALSE, FALSE)  \* lines 247-248
             ELSE IF env.build = "raise" THEN Raised         \* lines 250-286
             ELSE IF TestModeBranch(test_mode)
             THEN Returned(<<TRUE, TestModeStatus>>, FALSE, FALSE)
             ELSE SendOverSMTP(env, now)

(***************************************************************************)
(* email_sender.py, send_personalized_email.                               *)
(***************************************************************************)
legacy_send_personalized_email(row_data, creds, env, now) ==
    IF CredentialsMissing(creds) THEN Raised                 \* lines 35-36
    ELSE IF isna(row_data.name) THEN Raised                  \* line 50: replace(str, float)
    ELSE IF env.smtp = "none"
    THEN Returned(<<TRUE, "Sent on " \o strftime(now)>>, TRUE, TRUE)
    ELSE Returned(<<FALSE, "Failed: " \o ErrorText(env.smtp)>>,
                  TRUE, Accepted(env.smtp))

(***************************************************************************)
(* The table in storage and in memory.                                     *)
(***************************************************************************)
\* Strings pandas reads as NaN (keep_default_na), among them the empty cell.
NaValues == {"", "NA", "N/A", "NaN", "nan", "null", "NULL", "None"}

ReadCell(c) == IF ~isna(c) /\ c[1] \in NaValues THEN NaN ELSE c

\* pd.read_excel / pd.read_csv of the stored table.
read_client_data(f) ==
    [i \in 1..Len(f) |-> [col \in DOMAIN f[i] |-> ReadCell(f[i][col])]]

\* df.to_excel(config.EXCEL_FILE, index=False): NaN is written as an empty cell.
to_excel(d) == d

\* Lines 546-551: the loader has no reader for the extension of the path and
\* raises ValueError.
UnsupportedFormat(file_path) ==
    ~(endswith(file_path, ".xlsx") \/ endswith(file_path, ".xls")
        \/ endswith(file_path, ".csv"))

\* Line 522, df.to_excel(config.EXCEL_FILE): whether the table gets written.
\* The writer is chosen by the extension of the path: there is one for .xlsx,
\* none for .csv (ValueError), and one for .xls only in builds with pandas
\* older than 2.0 and xlwt installed.
ToExcelWrites(file_path) ==
    IF endswith(file_path, ".xlsx") THEN {TRUE}
    ELSE IF endswith(file_path, ".xls") THEN BOOLEAN
    ELSE {FALSE}

\* Lines 32-41: the column headers the configuration starts with.
DefaultColumns ==
    [name |-> "First Name", to |-> "To", cc |-> "CC", bcc |-> "BCC",
     status |-> "Email Status", timestamp |-> "Sent Timestamp",
     attachments |-> "Attachments", custom_subject |-> "Custom Subject"]

\* Lines 410-412: a mapping set by email_config.json for a renamed spreadsheet.
RenamedColumns ==
    [DefaultColumns EXCEPT !.name = "Full Name", !.to = "Email",
                           !.bcc = "Blind Copy"]

\* dict.get(key, default).
get(dict, key, default) == IF key \in DOMAIN dict THEN dict[key] ELSE default

\* Lines 438-441: the mapped columns whose absence stops the run.
MissingColumns(columns, df_columns) ==
    {col_name \in {columns[k] : k \in DOMAIN columns} :
        /\ col_name \notin df_columns
        /\ col_name # "BCC"
        /\ col_name # "Attachments"
        /\ col_name # "Custom Subject"}

\* Line 450: col.lower() of the four names of line 449.
OptionalKey ==
    [col \in {"BCC", "Attachments", "Custom Subject", "Sent Timestamp"} |-> lower(col)]

\* Lines 449-451: the columns added to the DataFrame, filled with ''.
AddedColumns(columns, df_columns) ==
    {get(columns, OptionalKey[col], col) : col \in DOMAIN OptionalKey} \ df_columns

\* Faulty variant of AlreadySent: the test is inverted, so rows with a status
\* are attempted and pending rows are passed over.
AlreadySent_Inverted(current_status) ==
    ~(~isna(current_status) /\ strip(str(current_status)) # "")

\* Line 488 (and email_sender.py line 146): the row already has a status.
AlreadySent(current_status) ==
    ~isna(current_status) /\ strip(str(current_status)) # ""

\* Line 460: the rows counted as pending.
PendingCount(d) ==
    Cardinality({i \in 1..Len(d) : isna(d[i].status) \/ d[i].status = Cell("")})

\* Faulty variant of CapReached: off by one, the loop stops one row late.
CapReached_OffByOne(sent, cap) == sent > cap

\* Line 492: the cap of the run is used up.
CapReached(sent, cap) == sent >= cap

\* Faulty variant of Recorded: line 507 is dropped and the timestamp cell is
\* written whatever the result.
Recorded_AlwaysStamps(row, result) ==
    LET status_message == result[2]
        timestamp == IF Len(result) = 3 THEN result[3] ELSE ""
    IN  [row EXCEPT !.status = Cell(status_message),
                    !.timestamp = Cell(timestamp)]

\* Faulty variant of SleepsAfter: the run sleeps after every attempted row.
SleepsAfter_Always(sent, cap, index, length) == TRUE

\* Line 518: the run sleeps after the row at pandas index `index` (row index + 1).
SleepsAfter(sent, cap, index, length) == sent < cap /\ index < length - 1

\* Faulty variant of Recorded: lines 506-508 are missing, nothing is recorded.
Recorded_Nothing(row, result) == row

\* Lines 499-508: the status and timestamp cells after the result is recorded.
Recorded(row, result) ==
    LET status_message == result[2]
        timestamp == IF Len(result) = 3 THEN result[3] ELSE ""
    IN  [row EXCEPT !.status = Cell(status_message),
                    !.timestamp = IF timestamp # "" THEN Cell(timestamp) ELSE @]

(***************************************************************************)
(* The tables the runs start from.                                         *)
(***************************************************************************)
OldStamp == Cell("2026-10-31 09:00:00")

RowInputs ==
    { [name |-> Cell("Jane"), to |-> Cell("jane@x.com,bad-email"),
       status |-> NaN, timestamp |-> NaN],
      [name |-> NaN, to |-> Cell("a@x.io"),
       status |-> NaN, timestamp |-> OldStamp],
      [name |-> Cell("Bob"), to |-> NaN,
       status |-> NaN, timestamp |-> NaN],
      [name |-> Cell("Eve"), to |-> Cell("bad-email"),
       status |-> NaN, timestamp |-> NaN],
      [name |-> Cell("Al"), to |-> Cell("a@x.io"),
       status |-> Cell(" "), timestamp |-> NaN],
      [name |-> Cell("Al"), to |-> Cell("a@x.io"),
       status |-> Cell(SentStatus), timestamp |-> OldStamp] }

Tables(maxRows) == UNION {[1..n -> RowInputs] : n \in 1..maxRows}

(***************************************************************************)
(* State after construction: a stored table, a configuration, no run yet.  *)
(***************************************************************************)
InitDriver(maxRows, limit) ==
    /\ file \in Tables(maxRows)
    /\ runLimit = limit
    /\ script \in {"main", "legacy"}
    /\ MAX_EMAILS_PER_RUN \in 0..MaxCap
    /\ credentials \in BOOLEAN
    /\ TEST_MODE = FALSE
    /\ df = <<>>
    /\ pc = "idle"
    /\ idx = 1
    /\ pending_emails = 0
    /\ emails_sent_this_run = 0
    /\ successful_emails = 0
    /\ failed_emails = 0
    /\ runs = 0
    /\ lastEnd = "none"
    /\ loaded = <<>>
    /\ log = <<>>
    /\ sleeps = <<>>
    /\ delivered = [i \in 1..Len(file) |-> 0]
    /\ connections = [i \in 1..Len(file) |-> 0]
    /\ saves = 0

\* The table of lines 384-394 under its default headers, in an .xlsx file.
DefaultStorage ==
    /\ COLUMNS = DefaultColumns
    /\ headers = {DefaultColumns[k] : k \in DOMAIN DefaultColumns}
    /\ EXCEL_FILE = "aarushi_main.xlsx"
    /\ fileExists = TRUE

\* No message is being built.
NoMessage ==
    /\ input_row = <<>>
    /\ email_template = ""
    /\ EMAIL_SUBJECT = ""
    /\ filesystem = <<>>
    /\ msg = <<>>

InitWith(maxRows, limit) ==
    InitDriver(maxRows, limit) /\ DefaultStorage /\ NoMessage

\* The call of send_personalized_email on row i as the history keeps it: smtp is
\* the step at which the SMTP session it opened failed ("none": no session, or
\* a session that succeeded).
LogEntry(i, out, env) ==
    [row |-> i, raised |-> out.raised, opened |-> out.opened,
     accepted |-> out.accepted,
     smtp |-> IF out.opened THEN env.smtp ELSE "none",
     success |-> IF out.raised THEN FALSE ELSE out.result[1]]

\* Lines 481-483 with the table just read (line 435).
BeginRun(test_mode) ==
    /\ df' = read_client_data(file)
    /\ loaded' = read_client_data(file)
    /\ TEST_MODE' = test_mode
    /\ runs' = runs + 1
    /\ idx' = 1
    /\ log' = <<>>
    /\ sleeps' = <<>>
    /\ emails_sent_this_run' = 0
    /\ successful_emails' = 0
    /\ failed_emails' = 0
    /\ UNCHANGED <<file, script, MAX_EMAILS_PER_RUN, credentials, runLimit, delivered,
                   connections>>
    /\ saves' = 0

(***************************************************************************)
(* main.py, main(): from the start to the row loop (lines 400-483).        *)
(***************************************************************************)
\* Lines 426-446: the table is there, the loader reads it and none of the
\* columns line 440 asks for is missing.
StartupPasses ==
    /\ fileExists
    /\ ~UnsupportedFormat(EXCEL_FILE)
    /\ MissingColumns(COLUMNS, headers) = {}

\* main() returns before the row loop, with `table` in memory.
AbortRun(how, table) ==
    /\ pc = "idle" /\ script = "main" /\ runs < runLimit
    /\ runs' = runs + 1
    /\ df' = table
    /\ loaded' = table
    /\ idx' = 1
    /\ log' = <<>>
    /\ sleeps' = <<>>
    /\ pending_emails' = 0
    /\ emails_sent_this_run' = 0
    /\ successful_emails' = 0
    /\ failed_emails' = 0
    /\ saves' = 0
    /\ pc' = "idle"
    /\ lastEnd' = how
    /\ UNCHANGED <<file, script, TEST_MODE, MAX_EMAILS_PER_RUN, credentials,
                   runLimit, delivered, connections, storageVars, messageVars>>

\* Lines 426-431: there is no file at config.EXCEL_FILE.
RunNoFile ==
    /\ ~fileExists
    /\ AbortRun("nofile", <<>>)

\* Line 435 raises (lines 550-551); lines 539-542 print the error.
RunUnreadable ==
    /\ fileExists
    /\ UnsupportedFormat(EXCEL_FILE)
    /\ AbortRun("unreadable", <<>>)

\* Lines 443-446: a column line 440 asks for is missing.
RunMissingColumns ==
    /\ fileExists
    /\ ~UnsupportedFormat(EXCEL_FILE)
    /\ MissingColumns(COLUMNS, headers) # {}
    /\ AbortRun("missingcolumns", read_client_data(file))

\* Lines 466-468: nothing is counted as pending, the run returns.
RunNoPending ==
    /\ pc = "idle" /\ script = "main" /\ runs < runLimit
    /\ StartupPasses
    /\ \E test_mode \in BOOLEAN : BeginRun(test_mode)
    /\ PendingCount(read_client_data(file)) = 0
    /\ pending_emails' = 0
    /\ pc' = "idle"
    /\ lastEnd' = "nopending"
    /\ UNCHANGED <<storageVars, messageVars>>

\* Lines 471-476: the operator answers no at the prompt of a live run.
RunCancelled ==
    /\ pc = "idle" /\ script = "main" /\ runs < runLimit
    /\ StartupPasses
    /\ BeginRun(FALSE)
    /\ PendingCount(read_client_data(file)) # 0
    /\ pending_emails' = PendingCount(read_client_data(file))
    /\ pc' = "idle"
    /\ lastEnd' = "cancelled"
    /\ UNCHANGED <<storageVars, messageVars>>

\* Lines 478-485: the campaign starts (a test run, or a confirmed live run).
RunStart ==
    /\ pc = "idle" /\ script = "main" /\ runs < runLimit
    /\ StartupPasses
    /\ \E test_mode \in BOOLEAN : BeginRun(test_mode)
    /\ PendingCount(read_client_data(file)) # 0
    /\ pending_emails' = PendingCount(read_client_data(file))
    /\ pc' = "loop"
    /\ lastEnd' = "running"
    /\ UNCHANGED <<storageVars, messageVars>>

(***************************************************************************)
(* main.py, main(): the row loop (lines 485-519) and the save (521-523).   *)
(***************************************************************************)
InLoop == pc = "loop" /\ script = "main" /\ idx <= Len(df)

\* Lines 487-489: the row has a status and is passed over.
SkipRow ==
    /\ InLoop
    /\ AlreadySent(df[idx].status)
    /\ idx' = idx + 1
    /\ UNCHANGED <<file, df, pc, script, TEST_MODE, MAX_EMAILS_PER_RUN, credentials,
                   pending_emails, emails_sent_this_run, successful_emails,
                   failed_emails, runs, runLimit, lastEnd, loaded, log, sleeps,
                   delivered, connections>>
    /\ UNCHANGED <<saves, storageVars, messageVars>>

\* Lines 521-523: the table is written back and the run ends; when to_excel
\* raises, lines 539-542 print the error and nothing is written.
Save ==
    /\ \E written \in ToExcelWrites(EXCEL_FILE) :
        IF written
        THEN /\ file' = to_excel(df)
             /\ headers' = headers \cup AddedColumns(COLUMNS, headers)
             /\ saves' = saves + 1
             /\ lastEnd' = "saved"
        ELSE /\ UNCHANGED <<file, headers, saves>>
             /\ lastEnd' = "savefailed"
    /\ pc' = "idle"
    /\ UNCHANGED <<df, idx, script, TEST_MODE, MAX_EMAILS_PER_RUN, credentials,
                   pending_emails, emails_sent_this_run, successful_emails,
                   failed_emails, runs, runLimit, loaded, log, sleeps, delivered,
                   connections, COLUMNS, EXCEL_FILE, fileExists>>

\* Faulty variant of HaltAtCap: continue instead of break, the loop walks on
\* past the pending row.
HaltAtCap_Continue ==
    /\ InLoop
    /\ ~AlreadySent(df[idx].status)
    /\ CapReached(emails_sent_this_run, MAX_EMAILS_PER_RUN)
    /\ idx' = idx + 1
    /\ UNCHANGED <<file, df, pc, script, TEST_MODE, MAX_EMAILS_PER_RUN, credentials,
                   pending_emails, emails_sent_this_run, successful_emails,
                   failed_emails, runs, runLimit, lastEnd, loaded, log, sleeps,
                   delivered, connections>>
    /\ UNCHANGED <<saves, storageVars, messageVars>>

\* Lines 491-494, then 521-523: the cap stops the loop at a pending row.
HaltAtCap ==
    /\ InLoop
    /\ ~AlreadySent(df[idx].status)
    /\ CapReached(emails_sent_this_run, MAX_EMAILS_PER_RUN)
    /\ Save
    /\ UNCHANGED messageVars

\* The loop has visited every row (line 485 runs out), then 521-523.
LoopExhausted ==
    /\ pc = "loop" /\ script = "main" /\ idx > Len(df)
    /\ Save
    /\ UNCHANGED messageVars

\* Lines 497-515: the row is attempted and the call returns a result.
ProcessRow ==
    /\ InLoop
    /\ ~AlreadySent(df[idx].status)
    /\ ~CapReached(emails_sent_this_run, MAX_EMAILS_PER_RUN)
    /\ \E env \in Environments :
        LET out == send_personalized_email(df[idx], TEST_MODE, credentials, env, runs)
        IN  /\ ~out.raised
            /\ df' = [df EXCEPT ![idx] = Recorded(@, out.result)]
            /\ successful_emails' = successful_emails + (IF out.result[1] THEN 1 ELSE 0)
            /\ failed_emails' = failed_emails + (IF out.result[1] THEN 0 ELSE 1)
            /\ log' = Append(log, LogEntry(idx, out, env))
            /\ delivered' = [delivered EXCEPT ![idx] = @ + (IF out.accepted THEN 1 ELSE 0)]
            /\ connections' = [connections EXCEPT ![idx] = @ + (IF out.opened THEN 1 ELSE 0)]
    /\ emails_sent_this_run' = emails_sent_this_run + 1
    /\ sleeps' = IF SleepsAfter(emails_sent_this_run + 1, MAX_EMAILS_PER_RUN,
                                idx - 1, Len(df))
                 THEN Append(sleeps, idx)
                 ELSE sleeps
    /\ idx' = idx + 1
    /\ UNCHANGED <<file, pc, script, TEST_MODE, MAX_EMAILS_PER_RUN, credentials,
                   pending_emails, runs, runLimit, lastEnd, loaded>>
    /\ UNCHANGED <<saves, storageVars, messageVars>>

\* Line 497 raises; lines 539-542 print the error and main() returns.
ProcessRowRaises ==
    /\ InLoop
    /\ ~AlreadySent(df[idx].status)
    /\ ~CapReached(emails_sent_this_run, MAX_EMAILS_PER_RUN)
    /\ \E env \in Environments :
        LET out == send_personalized_email(df[idx], TEST_MODE, credentials, env, runs)
        IN  /\ out.raised
            /\ log' = Append(log, LogEntry(idx, out, env))
    /\ pc' = "idle"
    /\ lastEnd' = "error"
    /\ UNCHANGED <<file, df, idx, script, TEST_MODE, MAX_EMAILS_PER_RUN, credentials,
                   pending_emails, emails_sent_this_run, successful_emails,
                   failed_emails, runs, runLimit, loaded, sleeps, delivered,
                   connections>>
    /\ UNCHANGED <<saves, storageVars, messageVars>>

(***************************************************************************)
(* email_sender.py, main(): the legacy driver over the same table (its     *)
(* 'Recipient' column is the to cell, its 'Email Sent status' the status   *)
(* cell).  It has no cap, no test mode and no prompt.                      *)
(***************************************************************************)
\* Lines 116-131: the table is read and the loop starts.
LegacyStart ==
    /\ pc = "idle" /\ script = "legacy" /\ runs < runLimit
    /\ BeginRun(FALSE)
    /\ pending_emails' = 0
    /\ pc' = "loop"
    /\ lastEnd' = "running"
    /\ UNCHANGED <<storageVars, messageVars>>

LegacyInLoop == pc = "loop" /\ script = "legacy" /\ idx <= Len(df)

\* Line 141: the row has no recipient address.
MissingRecipient(recipient_email) ==
    isna(recipient_email) \/ strip(str(recipient_email)) = ""

\* Lines 140-148: the row is passed over (no recipient, or it has a status).
LegacySkipRow ==
    /\ LegacyInLoop
    /\ MissingRecipient(df[idx].to) \/ AlreadySent(df[idx].status)
    /\ idx' = idx + 1
    /\ UNCHANGED <<file, df, pc, script, TEST_MODE, MAX_EMAILS_PER_RUN, credentials,
                   pending_emails, emails_sent_this_run, successful_emails,
                   failed_emails, runs, runLimit, lastEnd, loaded, log, sleeps,
                   delivered, connections>>
    /\ UNCHANGED <<saves, storageVars, messageVars>>

\* Lines 150-166: the row is sent and its status recorded.
LegacyProcessRow ==
    /\ LegacyInLoop
    /\ ~MissingRecipient(df[idx].to) /\ ~AlreadySent(df[idx].status)
    /\ \E env \in Environments :
        LET out == legacy_send_personalized_email(df[idx], credentials, env, runs)
        IN  /\ ~out.raised
            /\ df' = [df EXCEPT ![idx].status = Cell(out.result[2])]
            /\ successful_emails' = successful_emails + (IF out.result[1] THEN 1 ELSE 0)
            /\ log' = Append(log, LogEntry(idx, out, env))
            /\ delivered' = [delivered EXCEPT ![idx] = @ + (IF out.accepted THEN 1 ELSE 0)]
            /\ connections' = [connections EXCEPT ![idx] = @ + (IF out.opened THEN 1 ELSE 0)]
    /\ sleeps' = Append(sleeps, idx)                         \* line 166
    /\ idx' = idx + 1
    /\ UNCHANGED <<file, pc, script, TEST_MODE, MAX_EMAILS_PER_RUN, credentials,
                   pending_emails, emails_sent_this_run, failed_emails, runs,
                   runLimit, lastEnd, loaded>>
    /\ UNCHANGED <<saves, storageVars, messageVars>>

\* Line 151 raises; lines 178-179 print the error and main() returns.
LegacyProcessRowRaises ==
    /\ LegacyInLoop
    /\ ~MissingRecipient(df[idx].to) /\ ~AlreadySent(df[idx].status)
    /\ \E env \in Environments :
        LET out == legacy_send_personalized_email(df[idx], credentials, env, runs)
        IN  /\ out.raised
            /\ log' = Append(log, LogEntry(idx, out, env))
    /\ pc' = "idle"
    /\ lastEnd' = "error"
    /\ UNCHANGED <<file, df, idx, script, TEST_MODE, MAX_EMAILS_PER_RUN, credentials,
                   pending_emails, emails_sent_this_run, successful_emails,
                   failed_emails, runs, runLimit, loaded, sleeps, delivered,
                   connections>>
    /\ UNCHANGED <<saves, storageVars, messageVars>>

\* Lines 168-170: the loop is over and the table is written back.
LegacyFinish ==
    /\ pc = "loop" /\ script = "legacy" /\ idx > Len(df)
    /\ Save
    /\ UNCHANGED messageVars

Next ==
    \/ RunNoPending
    \/ RunCancelled
    \/ RunStart
    \/ SkipRow
    \/ HaltAtCap
    \/ LoopExhausted
    \/ ProcessRow
    \/ ProcessRowRaises
    \/ LegacyStart
    \/ LegacySkipRow
    \/ LegacyProcessRow
    \/ LegacyProcessRowRaises
    \/ LegacyFinish

\* The steps of main.py alone, the ones that stop at startup among them.
NextStorage ==
    \/ RunNoFile
    \/ RunUnreadable
    \/ RunMissingColumns
    \/ RunNoPending
    \/ RunCancelled
    \/ RunStart
    \/ SkipRow
    \/ HaltAtCap
    \/ LoopExhausted
    \/ ProcessRow
    \/ ProcessRowRaises

\* One run of either driver over any table of up to MaxRows rows.
Init == InitWith(MaxRows, 1)

Spec == Init /\ [][Next]_vars

\* Up to MaxRuns runs, one after the other, over the table they leave in storage.
InitRepeated == InitWith(MaxRowsRepeated, MaxRuns)

SpecRepeated == InitRepeated /\ [][Next]_vars

\* The paths the table may be kept at.
Paths == {"clients.xlsx", "clients.xls", "clients.csv", "clients.txt"}

\* The logical columns a stored table may lack.
Droppable == {"cc", "bcc", "custom_subject", "timestamp"}

\* One run of main.py over a table of up to MaxRowsStorage rows, kept at any of
\* the paths, under either mapping, with any of the droppable columns missing.
InitStorage ==
    /\ InitDriver(MaxRowsStorage, 1)
    /\ script = "main"
    /\ COLUMNS \in {DefaultColumns, RenamedColumns}
    /\ \E absent \in SUBSET Droppable :
        headers = {COLUMNS[k] : k \in DOMAIN COLUMNS \ absent}
    /\ EXCEL_FILE \in Paths
    /\ fileExists \in BOOLEAN
    /\ NoMessage

SpecStorage == InitStorage /\ [][NextStorage]_vars

(***************************************************************************)
(* main.py, the message of one row.  The row is the pandas Series handed   *)
(* to send_personalized_email: its cells in column order, each with the    *)
(* header of its column.  The file system is a record: kind gives, for the *)
(* paths that exist, "dir", "file" or "unreadable" (a file open() fails    *)
(* on); listdir is os.listdir of the attachments folder.                   *)
(***************************************************************************)
\* Series.get(key, default).
series_get(series, key, default) ==
    LET at == {k \in 1..Len(series) : series[k].key = key}
    IN  IF at = {} THEN default
        ELSE series[CHOOSE k \in at : \A j \in at : k <= j].value

\* datetime.now().strftime("%B %d, %Y") at line 213.
Today == "November 01, 2026"

\* Lines 211-216: the standard replacements.
StandardReplacements(series) ==
    << [placeholder |-> "{{NAME}}",
        value |-> str(series_get(series, "First Name", Cell("")))],
       [placeholder |-> "{{DATE}}", value |-> Today],
       [placeholder |-> "{{COMPANY}}",
        value |-> str(series_get(series, "Company", Cell("")))],
       [placeholder |-> "{{EMAIL}}",
        value |-> str(series_get(series, "To", Cell("")))] >>

\* Line 221.
Placeholder(key) == "{{" \o replace(upper(key), " ", "_") \o "}}"

\* Lines 220-223: every column adds its placeholder unless it is there already.
RECURSIVE ColumnReplacements(_, _)
ColumnReplacements(replacements, items) ==
    IF items = <<>> THEN replacements
    ELSE LET placeholder == Placeholder(Head(items).key)
             value == Head(items).value
             taken == \E k \in 1..Len(replacements) :
                          replacements[k].placeholder = placeholder
         IN  ColumnReplacements(
                 IF taken THEN replacements
                 ELSE Append(replacements,
                             [placeholder |-> placeholder,
                              value |-> IF ~isna(value) THEN str(value) ELSE ""]),
                 Tail(items))

\* Lines 226-227.
RECURSIVE ReplaceAll(_, _)
ReplaceAll(content, replacements) ==
    IF replacements = <<>> THEN content
    ELSE ReplaceAll(replace(content, Head(replacements).placeholder,
                            Head(replacements).value),
                    Tail(replacements))

personalize_content(template, series) ==
    ReplaceAll(template, ColumnReplacements(StandardReplacements(series), series))

\* config.ATTACHMENTS_FOLDER.
ATTACHMENTS_FOLDER == "attachments"

Kind(fs, path) == IF path \in DOMAIN fs.kind THEN fs.kind[path] ELSE "missing"

\* os.path.exists, os.path.isfile, and open(path, "rb") not raising.
exists(fs, path) == Kind(fs, path) # "missing"

isfile(fs, path) == Kind(fs, path) \in {"file", "unreadable"}

Opens(fs, path) == Kind(fs, path) = "file"

\* os.path.join(folder, f) and os.path.basename(path).
path_join(folder, f) == folder \o "/" \o f

basename(path) ==
    LET slashes == {k \in 1..Len(path) : CharAt(path, k) = "/"}
    IN  IF slashes = {} THEN path
        ELSE SubSeq(path, (CHOOSE k \in slashes : \A j \in slashes : j <= k) + 1,
                    Len(path))

\* Faulty variant of attach_files: the existence test of line 178 and the
\* handler of line 201 are missing, every path is attached.
RECURSIVE attach_files_Unchecked(_, _)
attach_files_Unchecked(fs, attachment_paths) ==
    IF attachment_paths = <<>> THEN [attached_files |-> <<>>, warnings |-> <<>>]
    ELSE LET rest == attach_files_Unchecked(fs, Tail(attachment_paths))
         IN  [attached_files |-> <<basename(Head(attachment_paths))>>
                                     \o rest.attached_files,
              warnings |-> rest.warnings]

\* Lines 173-205: the names of the files attached, and the paths warned about.
RECURSIVE attach_files(_, _)
attach_files(fs, attachment_paths) ==
    IF attachment_paths = <<>> THEN [attached_files |-> <<>>, warnings |-> <<>>]
    ELSE LET file_path == Head(attachment_paths)
             rest == attach_files(fs, Tail(attachment_paths))
         IN  IF exists(fs, file_path) /\ Opens(fs, file_path)
             THEN [attached_files |-> <<basename(file_path)>> \o rest.attached_files,
                   warnings |-> rest.warnings]
             ELSE [attached_files |-> rest.attached_files,
                   warnings |-> <<file_path>> \o rest.warnings]

\* Lines 66-69: the entries parse_email_list warns about at line 72.
invalid_emails(email_string) ==
    IF isna(email_string) \/ strip(str(email_string)) = ""
    THEN <<>>
    ELSE SelectSeq(StripAll(split(str(email_string), "")),
                   LAMBDA email : email # "" /\ ~validate_email(email))

\* os.getenv('EMAIL_SENDER').
sender_email == "sender@corp.com"

\* Faulty variant of AllRecipients: the BCC addresses are left out.
AllRecipients_WithoutBcc(to_emails, cc_emails, bcc_emails) == to_emails \o cc_emails

\* Line 286.
AllRecipients(to_emails, cc_emails, bcc_emails) ==
    to_emails \o cc_emails \o bcc_emails

\* Faulty variant of UseCustomSubject: the strip() of line 260 is missing.
UseCustomSubject_Untrimmed(custom_subject) ==
    truthy(custom_subject) /\ ~isna(custom_subject)

\* Line 260.
UseCustomSubject(custom_subject) ==
    truthy(custom_subject) /\ ~isna(custom_subject) /\ strip(str(custom_subject)) # ""

\* Lines 252-263: the headers of the message; Cc is set only for a non-empty list.
MessageHeaders(to_emails, cc_emails, subject) ==
    [h \in {"From", "To", "Subject"} \cup (IF cc_emails # <<>> THEN {"Cc"} ELSE {}) |->
        CASE h = "From" -> sender_email
          [] h = "To" -> join(to_emails)
          [] h = "Cc" -> join(cc_emails)
          [] h = "Subject" -> subject]

\* Lines 274-276: the regular files of the attachments folder, in listdir order.
GlobalAttachments(fs) ==
    SelectSeq([k \in 1..Len(fs.listdir) |-> path_join(ATTACHMENTS_FOLDER, fs.listdir[k])],
              LAMBDA file_path : isfile(fs, file_path))

\* Line 275: os.listdir raises when the path is there but cannot be listed.
ListdirRaises(fs) ==
    exists(fs, ATTACHMENTS_FOLDER) /\ Kind(fs, ATTACHMENTS_FOLDER) # "dir"

NoFiles == [attached_files |-> <<>>, warnings |-> <<>>]

\* Lines 242-286: the message of the row and what the call printed about it.
build_message(series, columns, subject, template, fs) ==
    LET to_cell == series_get(series, columns.to, Cell(""))
        cc_cell == series_get(series, columns.cc, Cell(""))
        bcc_cell == series_get(series, columns.bcc, Cell(""))
        to_emails == parse_email_list(to_cell)
        cc_emails == parse_email_list(cc_cell)
        bcc_emails == parse_email_list(bcc_cell)
        custom_subject == series_get(series, columns.custom_subject, Cell(""))
        global == IF exists(fs, ATTACHMENTS_FOLDER) /\ ~ListdirRaises(fs)
                  THEN attach_files(fs, GlobalAttachments(fs))
                  ELSE NoFiles
        specific_attachments == series_get(series, columns.attachments, Cell(""))
        specific == IF truthy(specific_attachments) /\ ~isna(specific_attachments)
                    THEN attach_files(fs, StripAll(split(str(specific_attachments), "")))
                    ELSE NoFiles
    IN  [to_emails |-> to_emails,
         header |-> MessageHeaders(to_emails, cc_emails,
                        IF UseCustomSubject(custom_subject)
                        THEN personalize_content(str(custom_subject), series)
                        ELSE personalize_content(subject, series)),
         body |-> personalize_content(template, series),
         attached_files |-> global.attached_files \o specific.attached_files,
         warnings |-> global.warnings \o specific.warnings,
         skipped |-> invalid_emails(to_cell) \o invalid_emails(cc_cell)
                         \o invalid_emails(bcc_cell),
         all_recipients |-> AllRecipients(to_emails, cc_emails, bcc_emails)]

\* Lines 231-326: one call.  stage is how it ended: "raised", "rejected" (no
\* valid TO address), "previewed" (test mode), "sent" or "failed" (the SMTP
\* session raised); handed tells whether sendmail took the message.
send_message(series, columns, subject, template, fs, test_mode, creds, env, now) ==
    IF CredentialsMissing(creds) THEN [stage |-> "raised"]
    ELSE LET message == build_message(series, columns, subject, template, fs)
         IN  IF NoRecipients(message.to_emails)
             THEN [stage |-> "rejected", result |-> <<FALSE, NoValidTo>>,
                   skipped |-> message.skipped, handed |-> FALSE]
             ELSE IF ListdirRaises(fs) THEN [stage |-> "raised"]
             ELSE IF TestModeBranch(test_mode)
             THEN [stage |-> "previewed", result |-> <<TRUE, TestModeStatus>>,
                   message |-> message, handed |-> FALSE]
             ELSE LET out == SendOverSMTP(env, now)
                  IN  [stage |-> IF out.result[1] THEN "sent" ELSE "failed",
                       result |-> out.result, message |-> message,
                       handed |-> out.accepted]

(***************************************************************************)
(* One call of send_personalized_email on one row: the inputs are drawn at *)
(* the start, the call is a live one or a preview.                         *)
(***************************************************************************)
\* The cells made of up to MaxEntries of the entries, joined by commas.
RECURSIVE Lists(_, _)
Lists(entries, n) ==
    IF n = 0 THEN {""}
    ELSE entries \cup {e \o "," \o l : e \in entries, l \in Lists(entries, n - 1) \ {""}}

CellsOf(entries) == {NaN} \cup {Cell(s) : s \in Lists(entries, MaxEntries) \cup {""}}

AddressEntries == {"jane@x.com", " bob@y.org ", "bad-email", ""}

AttachmentEntries == {"cv.pdf", " secret.pdf", "gone.pdf", "docs", ""}

\* The row of lines 384-394 with the given cells, under the headers of the
\* mapping, followed by the extra columns.
MessageRow(columns, name, to, cc, bcc, attachments, custom_subject, extra) ==
    << [key |-> columns.name, value |-> name],
       [key |-> columns.to, value |-> to],
       [key |-> columns.cc, value |-> cc],
       [key |-> columns.bcc, value |-> bcc],
       [key |-> columns.status, value |-> NaN],
       [key |-> columns.timestamp, value |-> NaN],
       [key |-> columns.attachments, value |-> attachments],
       [key |-> columns.custom_subject, value |-> custom_subject] >> \o extra

\* No attachments folder, no files.
EmptyFileSystem == [kind |-> <<>>, listdir |-> <<>>]

\* The driver is at rest and the table has its default layout but for COLUMNS.
IdleDriver ==
    /\ file = <<>> /\ df = <<>> /\ loaded = <<>>
    /\ pc = "idle" /\ idx = 1 /\ script = "main"
    /\ TEST_MODE = FALSE /\ MAX_EMAILS_PER_RUN = 0 /\ credentials = TRUE
    /\ pending_emails = 0 /\ emails_sent_this_run = 0
    /\ successful_emails = 0 /\ failed_emails = 0
    /\ runs = 0 /\ runLimit = 0 /\ lastEnd = "none"
    /\ log = <<>> /\ sleeps = <<>> /\ delivered = <<>> /\ connections = <<>>
    /\ saves = 0
    /\ headers = {COLUMNS[k] : k \in DOMAIN COLUMNS}
    /\ EXCEL_FILE = "aarushi_main.xlsx"
    /\ fileExists = TRUE

driverVars ==
    <<file, df, pc, idx, script, TEST_MODE, MAX_EMAILS_PER_RUN, credentials,
      pending_emails, emails_sent_this_run, successful_emails, failed_emails,
      runs, runLimit, lastEnd, loaded, log, sleeps, delivered, connections, saves>>

\* The call of line 497 with test_mode off, under every outcome of the channel.
SendLive ==
    /\ msg = <<>> /\ input_row # <<>>
    /\ \E env \in Environments :
        /\ env.build = "ok"
        /\ msg' = send_message(input_row, COLUMNS, EMAIL_SUBJECT, email_template,
                                filesystem, FALSE, credentials, env, 1)
    /\ UNCHANGED <<driverVars, storageVars, input_row, email_template,
                   EMAIL_SUBJECT, filesystem>>

\* The call of line 497 in test mode.
SendPreview ==
    /\ msg = <<>> /\ input_row # <<>>
    /\ msg' = send_message(input_row, COLUMNS, EMAIL_SUBJECT, email_template,
                            filesystem, TRUE, credentials,
                            [build |-> "ok", smtp |-> "none"], 1)
    /\ UNCHANGED <<driverVars, storageVars, input_row, email_template,
                   EMAIL_SUBJECT, filesystem>>

NextMessage == SendLive \/ SendPreview

\* Line 22.
DefaultSubject == "Invitation: Q2 Roadmap"

\* Rows that differ in their TO, CC and BCC cells.
InitRecipients ==
    /\ COLUMNS = DefaultColumns
    /\ IdleDriver
    /\ \E to \in CellsOf(AddressEntries) :
       \E cc \in {NaN, Cell("boss@corp.com"), Cell("cc@x.io, not an address")} :
       \E bcc \in {NaN, Cell("audit@corp.com"), Cell("jane@x.com,audit@corp.com , ")} :
           input_row = MessageRow(COLUMNS, Cell("Jane"), to, cc, bcc, NaN, NaN, <<>>)
    /\ email_template = "Dear {{NAME}}"
    /\ EMAIL_SUBJECT = DefaultSubject
    /\ filesystem = EmptyFileSystem
    /\ msg = <<>>

SpecRecipients == InitRecipients /\ [][NextMessage]_vars

\* The templates and the subjects of the campaign.
Templates ==
    {"Dear {{NAME}} of {{COMPANY}}",
     "To {{EMAIL}} on {{DATE}}",
     "{{JOB_TITLE}} {{FIRST_NAME}} {{UNKNOWN}} {{name}}",
     "Hi {{NAME}}, {{TO}} {{NAME}}"}

Subjects == {DefaultSubject, "News for {{NAME}}"}

\* The columns a table may have beside the mapped ones.
ExtraColumns ==
    {company \o job \o other :
        company \in {<<>>, <<[key |-> "Company", value |-> NaN]>>,
                     <<[key |-> "Company", value |-> Cell("Acme")]>>},
        job \in {<<[key |-> "Job Title", value |-> NaN]>>,
                 <<[key |-> "Job Title", value |-> Cell("CTO")]>>},
        other \in {<<>>, <<[key |-> "Name", value |-> Cell("Other")]>>}}

\* Rows that differ in what the placeholders stand for, under either mapping.
InitTemplate ==
    /\ COLUMNS \in {DefaultColumns, RenamedColumns}
    /\ IdleDriver
    /\ \E name \in {Cell("Jane"), NaN} :
       \E custom_subject \in {NaN, Cell(""), Cell(" "), Cell(" Offer for {{NAME}} ")} :
       \E extra \in ExtraColumns :
           input_row = MessageRow(COLUMNS, name, Cell("jane@x.com"), NaN, NaN, NaN,
                                  custom_subject, extra)
    /\ email_template \in Templates
    /\ EMAIL_SUBJECT \in Subjects
    /\ filesystem = EmptyFileSystem
    /\ msg = <<>>

SpecTemplate == InitTemplate /\ [][NextMessage]_vars

\* What may be found on disk: no attachments folder; a folder with a file, a
\* file open() fails on and a sub-folder; an empty folder; a file where the
\* folder should be.  Beside it a file, a file open() fails on and a folder.
Outside == [p \in {"cv.pdf", "secret.pdf", "docs"} |->
               CASE p = "cv.pdf" -> "file"
                 [] p = "secret.pdf" -> "unreadable"
                 [] p = "docs" -> "dir"]

FolderWith(names) ==
    [p \in DOMAIN Outside \cup {ATTACHMENTS_FOLDER}
            \cup {path_join(ATTACHMENTS_FOLDER, f) : f \in names} |->
        IF p \in DOMAIN Outside THEN Outside[p]
        ELSE IF p = ATTACHMENTS_FOLDER THEN "dir"
        ELSE IF p = path_join(ATTACHMENTS_FOLDER, "locked.pdf") THEN "unreadable"
        ELSE IF p = path_join(ATTACHMENTS_FOLDER, "archive") THEN "dir"
        ELSE "file"]

FileSystems ==
    { [kind |-> Outside, listdir |-> <<>>],
      [kind |-> FolderWith({}), listdir |-> <<>>],
      [kind |-> FolderWith({"terms.pdf", "locked.pdf", "archive", "logo.png"}),
       listdir |-> <<"terms.pdf", "locked.pdf", "archive", "logo.png">>],
      [kind |-> FolderWith({"terms.pdf", "logo.png"}),
       listdir |-> <<"logo.png", "terms.pdf">>],
      [kind |-> [p \in DOMAIN Outside \cup {ATTACHMENTS_FOLDER} |->
                    IF p = ATTACHMENTS_FOLDER THEN "file" ELSE Outside[p]],
       listdir |-> <<>>] }

\* Rows that differ in their Attachments cell, over the file systems.
InitAttachments ==
    /\ COLUMNS = DefaultColumns
    /\ IdleDriver
    /\ \E attachments \in CellsOf(AttachmentEntries) \cup {Cell("attachments/terms.pdf")} :
           input_row = MessageRow(COLUMNS, Cell("Jane"), Cell("jane@x.com"), NaN, NaN,
                                  attachments, NaN, <<>>)
    /\ email_template = "Dear {{NAME}}"
    /\ EMAIL_SUBJECT = DefaultSubject
    /\ filesystem \in FileSystems
    /\ msg = <<>>

SpecAttachments == InitAttachments /\ [][NextMessage]_vars

(***************************************************************************)
(* Vocabulary of the properties.                                           *)
(***************************************************************************)
\* The cell is non-empty after trimming.
NonEmpty(c) == ~isna(c) /\ strip(str(c)) # ""

\* The rows send_personalized_email was called on in the run.
AttemptedRows == {log[k].row : k \in 1..Len(log)}

\* The rows an SMTP connection was opened for in the run.
OpenedRows == {log[k].row : k \in {j \in 1..Len(log) : log[j].opened}}

\* The calls of the run that returned a result.
ReturnedCalls == {k \in 1..Len(log) : ~log[k].raised}

RunOver == pc = "idle" /\ runs > 0

SameCells(a, b) == a.status = b.status /\ a.timestamp = b.timestamp

(***************************************************************************)
(* C1: a row whose status is non-empty after trimming when the table is    *)
(* loaded is never handed to send_personalized_email (so no connection is  *)
(* opened for it), and its status and timestamp cells stay as loaded, in   *)
(* memory throughout the run and in storage once the run has saved.        *)
(***************************************************************************)
C1_SentRowsUntouched ==
    \A i \in 1..Len(loaded) :
        NonEmpty(loaded[i].status) =>
            /\ i \notin AttemptedRows
            /\ i \notin OpenedRows
            /\ SameCells(df[i], loaded[i])
            /\ SameCells(file[i], loaded[i])

\* A finished run that passed over a row with a status and attempted a later one.
C1_Witness ==
    /\ RunOver /\ lastEnd = "saved"
    /\ \E i, j \in 1..Len(loaded) :
        /\ i < j
        /\ NonEmpty(loaded[i].status)
        /\ j \in AttemptedRows
        /\ ~SameCells(df[j], loaded[j])

(***************************************************************************)
(* C2: in a run of main.py the number of rows attempted, the number of     *)
(* SMTP connections opened and the counter emails_sent_this_run never      *)
(* exceed MAX_EMAILS_PER_RUN, whatever the table and also for a cap of 0.  *)
(***************************************************************************)
C2_CapNeverExceeded ==
    script = "main" =>
        /\ Len(log) <= MAX_EMAILS_PER_RUN
        /\ Cardinality(AttemptedRows) <= MAX_EMAILS_PER_RUN
        /\ Cardinality(OpenedRows) <= MAX_EMAILS_PER_RUN
        /\ emails_sent_this_run <= MAX_EMAILS_PER_RUN

\* A run that used its whole cap of at least one row and left a pending row behind.
C2_Witness ==
    /\ script = "main" /\ RunOver /\ lastEnd = "saved"
    /\ MAX_EMAILS_PER_RUN >= 1
    /\ Len(log) = MAX_EMAILS_PER_RUN
    /\ \E i \in 1..Len(df) : ~NonEmpty(df[i].status) /\ i \notin AttemptedRows

(***************************************************************************)
(* C3, as stated: every row whose attempt was reported successful, in live *)
(* mode and in test mode alike, has a non-empty status and a non-empty     *)
(* timestamp; every row whose attempt failed has a non-empty status and an *)
(* empty timestamp.                                                        *)
(***************************************************************************)
C3_AsStated ==
    script = "main" =>
        \A k \in ReturnedCalls :
            LET row == df[log[k].row]
            IN  /\ NonEmpty(row.status)
                /\ log[k].success => NonEmpty(row.timestamp)
                /\ ~log[k].success => ~NonEmpty(row.timestamp)

(***************************************************************************)
(* C3, amended: every row whose attempt was reported successful in live    *)
(* mode has a non-empty status and a non-empty timestamp; every row whose  *)
(* attempt was reported successful in test mode, or failed, has a          *)
(* non-empty status and its timestamp cell exactly as loaded (so still     *)
(* empty when it was empty at load).                                       *)
(***************************************************************************)
C3_StatusAndTimestamp ==
    script = "main" =>
        \A k \in ReturnedCalls :
            LET row == df[log[k].row]
            IN  /\ NonEmpty(row.status)
                /\ (log[k].success /\ ~TEST_MODE) => NonEmpty(row.timestamp)
                /\ (~log[k].success \/ TEST_MODE) =>
                        row.timestamp = loaded[log[k].row].timestamp

\* A live run with one row sent and one row failed, both on rows loaded without
\* a timestamp.
C3_Witness ==
    /\ script = "main" /\ RunOver /\ ~TEST_MODE
    /\ \E j, k \in ReturnedCalls :
        /\ log[j].success /\ isna(loaded[log[j].row].timestamp)
        /\ NonEmpty(df[log[j].row].timestamp)
        /\ ~log[k].success /\ isna(df[log[k].row].timestamp)

(***************************************************************************)
(* C4, as stated: over repeated runs of main.py on the table they leave in *)
(* storage, once a row's status has become non-empty no later run opens a  *)
(* connection for the row, so over all runs each row has a connection      *)
(* opened for it at most once and is delivered at most once.               *)
(***************************************************************************)
C4_AsStated ==
    script = "main" =>
        \A i \in DOMAIN delivered : connections[i] <= 1 /\ delivered[i] <= 1

(***************************************************************************)
(* C5: when the SMTP session of a row fails, the call returns (nothing is  *)
(* raised), the row's status is "Failed: " followed by the error text, the *)
(* run does not end there, and in a run that reaches its save every later  *)
(* row that was pending at load is attempted unless the cap was reached.   *)
(***************************************************************************)
C5_ChannelFailureContained ==
    script = "main" =>
        \A k \in 1..Len(log) :
            (log[k].opened /\ log[k].smtp # "none") =>
                /\ ~log[k].raised
                /\ ~log[k].success
                /\ df[log[k].row].status = Cell("Failed: " \o ErrorText(log[k].smtp))
                /\ lastEnd = "error" => k < Len(log)
                /\ lastEnd = "saved" =>
                        \A i \in (log[k].row + 1)..Len(df) :
                            ~NonEmpty(loaded[i].status) =>
                                \/ i \in AttemptedRows
                                \/ emails_sent_this_run >= MAX_EMAILS_PER_RUN

\* A saved run in which a row failed in the channel and a later row was attempted.
C5_Witness ==
    /\ script = "main" /\ RunOver /\ lastEnd = "saved"
    /\ \E j, k \in 1..Len(log) :
        /\ j < k
        /\ log[j].opened /\ log[j].smtp = "login"
        /\ df[log[j].row].status = Cell("Failed: Authentication failed")
        /\ log[k].success

(***************************************************************************)
(* C6: for an attempted row whose TO cell is empty or holds no valid       *)
(* address, no SMTP connection is opened and nothing is delivered, the     *)
(* status becomes the non-empty text "No valid TO email addresses", and    *)
(* the row is counted in failed_emails and in emails_sent_this_run (one    *)
(* unit of the cap).  The counters count exactly the calls that returned.  *)
(***************************************************************************)
C6_NoRecipientIsFailure ==
    script = "main" =>
        /\ \A k \in 1..Len(log) :
                parse_email_list(loaded[log[k].row].to) = <<>> =>
                    ~log[k].opened /\ ~log[k].accepted
        /\ \A k \in ReturnedCalls :
                parse_email_list(loaded[log[k].row].to) = <<>> =>
                    /\ ~log[k].success
                    /\ df[log[k].row].status = Cell(NoValidTo)
                    /\ NonEmpty(df[log[k].row].status)
        /\ failed_emails = Cardinality({k \in ReturnedCalls : ~log[k].success})
        /\ emails_sent_this_run = Cardinality(ReturnedCalls)

\* A run with cap 1 whose only attempt was a row without a valid TO address,
\* with a row with a valid address left pending behind it.
C6_Witness ==
    /\ script = "main" /\ RunOver /\ lastEnd = "saved"
    /\ MAX_EMAILS_PER_RUN = 1 /\ Len(log) = 1 /\ failed_emails = 1
    /\ loaded[log[1].row].to = Cell("bad-email")
    /\ df[log[1].row].status = Cell(NoValidTo)
    /\ \E i \in 1..Len(df) :
        /\ i > log[1].row
        /\ ~NonEmpty(df[i].status)
        /\ parse_email_list(df[i].to) # <<>>

(***************************************************************************)
(* C7, as stated: rows passed over for their status do not use the cap; a  *)
(* run of main.py that is neither cancelled nor ended by an exception      *)
(* attempts exactly min(m, MAX_EMAILS_PER_RUN) rows, where m is the number *)
(* of rows whose status is empty after trimming at load, and the rows      *)
(* attempted are the first such rows in table order.                       *)
(***************************************************************************)
PendingAtLoad == {i \in 1..Len(loaded) : ~NonEmpty(loaded[i].status)}

Min(a, b) == IF a <= b THEN a ELSE b

C7_AsStated ==
    (script = "main" /\ RunOver /\ lastEnd \in {"saved", "nopending"}) =>
        /\ Len(log) = Min(Cardinality(PendingAtLoad), MAX_EMAILS_PER_RUN)
        /\ \A k \in 1..Len(log) :
            /\ log[k].row \in PendingAtLoad
            /\ Cardinality({j \in PendingAtLoad : j <= log[k].row}) = k

(***************************************************************************)
(* C8: in a run of main.py a row that was not attempted keeps its status   *)
(* and timestamp cells as loaded; and when a saved run leaves a row that   *)
(* was pending at load unattempted, the loop stopped at such a row after   *)
(* exactly MAX_EMAILS_PER_RUN attempts, no row from there on was attempted *)
(* and each of them is stored as loaded.                                   *)
(***************************************************************************)
C8_HaltLeavesRestUntouched ==
    script = "main" =>
        /\ \A i \in 1..Len(df) :
                i \notin AttemptedRows => SameCells(df[i], loaded[i])
        /\ (RunOver /\ lastEnd = "saved" /\ PendingAtLoad \ AttemptedRows # {}) =>
                /\ idx <= Len(df)
                /\ idx \in PendingAtLoad
                /\ emails_sent_this_run = MAX_EMAILS_PER_RUN
                /\ Len(log) = MAX_EMAILS_PER_RUN
                /\ \A i \in idx..Len(df) :
                        /\ i \notin AttemptedRows
                        /\ SameCells(file[i], loaded[i])

\* Cap 1 and two pending rows: one connection, the second row still pending in
\* memory and in storage.
C8_Witness ==
    /\ script = "main" /\ RunOver /\ lastEnd = "saved"
    /\ MAX_EMAILS_PER_RUN = 1
    /\ Cardinality(PendingAtLoad) = 2
    /\ Cardinality(OpenedRows) = 1
    /\ idx \in PendingAtLoad
    /\ isna(file[idx].status)

(***************************************************************************)
(* C9: in a test-mode run of main.py no SMTP connection is opened and      *)
(* nothing is delivered for any row, and every call that reaches the       *)
(* channel (it returned and the row has a valid TO address) is a success   *)
(* whose status is "Test mode - not sent", a text other than the status of *)
(* a live success.                                                         *)
(***************************************************************************)
C9_DryRunOpensNothing ==
    (script = "main" /\ TEST_MODE) =>
        /\ OpenedRows = {}
        /\ \A k \in 1..Len(log) : ~log[k].accepted
        /\ \A i \in DOMAIN delivered : delivered[i] = 0 /\ connections[i] = 0
        /\ \A k \in ReturnedCalls :
                parse_email_list(loaded[log[k].row].to) # <<>> =>
                    /\ log[k].success
                    /\ df[log[k].row].status = Cell(TestModeStatus)
                    /\ df[log[k].row].status # Cell(SentStatus)

\* A saved test-mode run that previewed two rows.
C9_Witness ==
    /\ script = "main" /\ TEST_MODE /\ RunOver /\ lastEnd = "saved"
    /\ successful_emails = 2
    /\ \E i \in AttemptedRows : file[i].status = Cell(TestModeStatus)

(***************************************************************************)
(* C10, as stated: when a run of main.py ends in the top-level handler     *)
(* because a row raised, the table in storage holds the status and         *)
(* timestamp recorded for every row attempted earlier in the run.          *)
(***************************************************************************)
C10_AsStated ==
    (script = "main" /\ RunOver /\ lastEnd = "error") =>
        \A k \in ReturnedCalls : SameCells(file[log[k].row], df[log[k].row])

(***************************************************************************)
(* C11, as stated: when the credentials are missing, a required column is  *)
(* missing or the table cannot be read, the run of main.py is over with no *)
(* status or timestamp cell changed, no SMTP connection opened and the     *)
(* table not written to storage.                                           *)
(***************************************************************************)
StoppedAtStartup == lastEnd \in {"nofile", "unreadable", "missingcolumns"}

C11_AsStated ==
    (script = "main" /\ RunOver /\ (~credentials \/ StoppedAtStartup)) =>
        /\ \A i \in DOMAIN df : SameCells(df[i], loaded[i])
        /\ OpenedRows = {}
        /\ saves = 0

(***************************************************************************)
(* C12, as stated: under any column mapping a run of main.py over a table  *)
(* it could read stops for missing columns exactly when the name, to, cc   *)
(* or status column is absent; the absence of the bcc, attachments, custom *)
(* subject or sent-timestamp column does not stop it.                      *)
(***************************************************************************)
RequiredColumns == {"name", "to", "cc", "status"}

C12_AsStated ==
    (script = "main" /\ RunOver /\ lastEnd \notin {"nofile", "unreadable"}) =>
        (lastEnd = "missingcolumns"
            <=> \E k \in RequiredColumns : COLUMNS[k] \notin headers)

(***************************************************************************)
(* C13, as stated: a run of main.py that enters the row loop writes        *)
(* nothing while it is in the loop, and once the loop is over (every row   *)
(* visited, or the cap reached) it has written the whole table to storage  *)
(* exactly once, whatever the format of the table: .xlsx, .xls or .csv.    *)
(***************************************************************************)
LoopFinished == lastEnd \in {"saved", "savefailed"}

C13_AsStated ==
    script = "main" =>
        /\ pc = "loop" => saves = 0
        /\ (RunOver /\ LoopFinished) => (saves = 1 /\ file = df)

(***************************************************************************)
(* C14: when a run has written the table, reading it back gives every row  *)
(* the status and timestamp cells the table in memory held, and each of    *)
(* them is empty after reading exactly if it was empty in memory.          *)
(***************************************************************************)
Reloaded == read_client_data(file)

SameClass(a, b) == NonEmpty(a) <=> NonEmpty(b)

C14_RoundTrip ==
    (RunOver /\ lastEnd = "saved") =>
        /\ Len(Reloaded) = Len(df)
        /\ \A i \in DOMAIN df :
            /\ SameCells(Reloaded[i], df[i])
            /\ SameClass(Reloaded[i].status, df[i].status)
            /\ SameClass(Reloaded[i].timestamp, df[i].timestamp)

\* A second run has saved a table holding a status it wrote, a row stamped by
\* a live success, and a row left without status by the cap.
C14_Witness ==
    /\ RunOver /\ lastEnd = "saved" /\ runs = 2
    /\ \E i \in AttemptedRows : df[i].status # loaded[i].status
    /\ \E i \in DOMAIN df : df[i].status = Cell(SentStatus) /\ ~isna(df[i].timestamp)
    /\ \E i \in DOMAIN df : isna(df[i].status)

(***************************************************************************)
(* Vocabulary of the properties of one message.                            *)
(***************************************************************************)
\* The cell of the row in the column the mapping gives the logical name.
InputCell(logical) ==
    LET at == {j \in 1..Len(input_row) : input_row[j].key = COLUMNS[logical]}
    IN  IF at = {} THEN NaN ELSE input_row[CHOOSE j \in at : TRUE].value

\* The trimmed comma-separated entries of a cell.
Entries(c) == IF isna(c) THEN <<>> ELSE StripAll(split(c[1], ""))

\* The entries that are addresses, and the other non-empty ones, in order.
Addresses(c) == SelectSeq(Entries(c), LAMBDA e : e # "" /\ validate_email(e))

NotAddresses(c) == SelectSeq(Entries(c), LAMBDA e : e # "" /\ ~validate_email(e))

Range(seq) == {seq[k] : k \in 1..Len(seq)}

Contains(s, sub) ==
    \E k \in 1..(Len(s) - Len(sub) + 1) : SubSeq(s, k, k + Len(sub) - 1) = sub

Called == msg # <<>>

Built == Called /\ msg.stage \in {"previewed", "sent", "failed"}

\* The addresses a header of the built message lists.
HeaderList(h) ==
    IF h \in DOMAIN msg.message.header
    THEN StripAll(split(msg.message.header[h], ""))
    ELSE <<>>

(***************************************************************************)
(* C15: when sendmail takes the message of a row, the recipients it is     *)
(* given are the valid TO addresses, then the valid CC addresses, then the *)
(* valid BCC addresses of the row; the To header lists the TO addresses,   *)
(* the Cc header the CC addresses, there is no Bcc header, and an address  *)
(* that is only in the BCC cell occurs in neither header.                  *)
(***************************************************************************)
BccOnly ==
    Range(Addresses(InputCell("bcc")))
        \ (Range(Addresses(InputCell("to"))) \cup Range(Addresses(InputCell("cc"))))

C15_EnvelopeAndHeaders ==
    (Called /\ msg.handed) =>
        /\ msg.message.all_recipients =
                Addresses(InputCell("to")) \o Addresses(InputCell("cc"))
                    \o Addresses(InputCell("bcc"))
        /\ HeaderList("To") = Addresses(InputCell("to"))
        /\ HeaderList("Cc") = Addresses(InputCell("cc"))
        /\ DOMAIN msg.message.header \subseteq {"From", "To", "Cc", "Subject"}
        /\ \A a \in BccOnly : \A h \in {"To", "Cc"} \cap DOMAIN msg.message.header :
                ~Contains(msg.message.header[h], a)

\* A message was sent whose BCC cell holds one address that is also a TO
\* address and one that is nowhere else, next to two TO and one CC address.
C15_Witness ==
    /\ Called /\ msg.stage = "sent" /\ msg.handed
    /\ BccOnly = {"audit@corp.com"}
    /\ Len(Addresses(InputCell("bcc"))) = 2
    /\ Len(Addresses(InputCell("to"))) = 2
    /\ Len(Addresses(InputCell("cc"))) = 1

(***************************************************************************)
(* C16: parse_email_list gives the trimmed non-empty entries of the cell   *)
(* that are valid addresses, in their order; the call never raises on      *)
(* account of an invalid entry, which is reported as skipped; the row is   *)
(* rejected only when no entry is valid, so a TO cell with one valid and   *)
(* one invalid entry is sent to the valid one.                             *)
(***************************************************************************)
Skipped == IF msg.stage = "rejected" THEN msg.skipped ELSE msg.message.skipped

C16_ParseEmailList ==
    /\ parse_email_list(InputCell("to")) = Addresses(InputCell("to"))
    /\ Called =>
        /\ msg.stage # "raised"
        /\ msg.stage = "rejected" <=> Addresses(InputCell("to")) = <<>>
        /\ Skipped = NotAddresses(InputCell("to")) \o NotAddresses(InputCell("cc"))
                          \o NotAddresses(InputCell("bcc"))
        /\ Built =>
            /\ msg.message.to_emails = Addresses(InputCell("to"))
            /\ HeaderList("To") = Addresses(InputCell("to"))
        /\ msg.stage = "sent" => msg.result[2] = SentStatus

\* Scenario A: the TO cell 'jane@x.com,bad-email' was sent to jane@x.com alone.
C16_Witness ==
    /\ Called /\ msg.stage = "sent"
    /\ InputCell("to") = Cell("jane@x.com,bad-email")
    /\ msg.message.to_emails = <<"jane@x.com">>
    /\ Skipped[1] = "bad-email"

(***************************************************************************)
(* C17, as stated: in the body of a built message {{NAME}} stands for the  *)
(* cell of the column mapped as name, {{EMAIL}} for the cell of the column *)
(* mapped as to, {{DATE}} for the date of the day; every other column      *)
(* replaces the placeholder made of its upper-cased header with            *)
(* underscores for spaces, unless a built-in has that name; all other text *)
(* of the template, unmatched placeholders included, is kept.  (Rows whose *)
(* name, to and Company cells hold text.)                                  *)
(***************************************************************************)
Text(c) == IF isna(c) THEN "" ELSE c[1]

CompanyCell == series_get(input_row, "Company", Cell(""))

BuiltInsByMapping ==
    << [placeholder |-> "{{NAME}}", value |-> Text(InputCell("name"))],
       [placeholder |-> "{{DATE}}", value |-> Today],
       [placeholder |-> "{{COMPANY}}", value |-> Text(CompanyCell)],
       [placeholder |-> "{{EMAIL}}", value |-> Text(InputCell("to"))] >>

RenderedByMapping(template) ==
    ReplaceAll(template, ColumnReplacements(BuiltInsByMapping, input_row))

C17_AsStated ==
    (Built /\ ~isna(InputCell("name")) /\ ~isna(InputCell("to")) /\ ~isna(CompanyCell)) =>
        msg.message.body = RenderedByMapping(email_template)

(***************************************************************************)
(* C18, as stated: the subject and the body of a built message render      *)
(* every absent (NaN) value, of a built-in placeholder or of a column, as  *)
(* the empty string, and so hold neither "nan" nor "null" (no text of the  *)
(* rows, templates and subjects holds either).                             *)
(***************************************************************************)
C18_AsStated ==
    Built =>
        \A text \in {msg.message.body, msg.message.header["Subject"]} :
            ~Contains(text, "nan") /\ ~Contains(text, "null")

(***************************************************************************)
(* C19: the subject of a built message is the rendered custom subject of   *)
(* the row when that cell holds text that is not empty after trimming, and *)
(* the rendered subject of the campaign in every other case.               *)
(***************************************************************************)
CustomPresent ==
    ~isna(InputCell("custom_subject")) /\ strip(Text(InputCell("custom_subject"))) # ""

C19_SubjectChoice ==
    Built =>
        msg.message.header["Subject"] =
            IF CustomPresent
            THEN personalize_content(Text(InputCell("custom_subject")), input_row)
            ELSE personalize_content(EMAIL_SUBJECT, input_row)

\* A message was built for a row with a custom subject: it has that subject,
\* rendered, and not the subject of the campaign.
C19_Witness ==
    /\ Built /\ CustomPresent
    /\ msg.message.header["Subject"] = " Offer for Jane "
    /\ msg.message.header["Subject"] # personalize_content(EMAIL_SUBJECT, input_row)

(***************************************************************************)
(* C20: the files attached to a built message are the regular files of the *)
(* attachments folder that can be read, in the order the folder lists      *)
(* them, followed by the files of the row's comma-separated list that      *)
(* exist and can be read, in the order of the list; without the folder     *)
(* there are none of the first kind; every other candidate is warned about *)
(* and left out, and the call does not raise unless the folder itself      *)
(* cannot be listed.                                                       *)
(***************************************************************************)
IsReadableFile(path) ==
    path \in DOMAIN filesystem.kind /\ filesystem.kind[path] = "file"

FolderThere ==
    ATTACHMENTS_FOLDER \in DOMAIN filesystem.kind
        /\ filesystem.kind[ATTACHMENTS_FOLDER] = "dir"

FolderMissing == ATTACHMENTS_FOLDER \notin DOMAIN filesystem.kind

InFolder ==
    IF FolderThere
    THEN [k \in 1..Len(filesystem.listdir) |->
             ATTACHMENTS_FOLDER \o "/" \o filesystem.listdir[k]]
    ELSE <<>>

\* The files the row names: the non-empty entries of its Attachments cell.
Named == SelectSeq(Entries(InputCell("attachments")), LAMBDA e : e # "")

FileNames(paths) == [k \in 1..Len(paths) |-> basename(paths[k])]

C20_Attachments ==
    /\ (Called /\ (FolderThere \/ FolderMissing)) => msg.stage # "raised"
    /\ Built =>
        /\ msg.message.attached_files =
                FileNames(SelectSeq(InFolder, IsReadableFile))
                    \o FileNames(SelectSeq(Named, IsReadableFile))
        /\ Range(msg.message.warnings) \ {""} =
                {p \in Range(InFolder) :
                    filesystem.kind[p] = "unreadable"}
                \cup {p \in Range(Named) : ~IsReadableFile(p)}
        /\ FolderMissing =>
                msg.message.attached_files = FileNames(SelectSeq(Named, IsReadableFile))

\* A message was sent with two files of the folder and one of the row's list,
\* after warnings about a locked file of the folder and a missing file and a
\* folder of the list.
C20_Witness ==
    /\ Called /\ msg.stage = "sent"
    /\ msg.message.attached_files = <<"terms.pdf", "logo.png", "cv.pdf">>
    /\ {"attachments/locked.pdf", "gone.pdf"} \subseteq Range(msg.message.warnings)

(***************************************************************************)
(* C21: within a run the rows are attempted one at a time in the order of  *)
(* the table: the attempts are on strictly increasing rows (so no row is   *)
(* attempted twice and none before an earlier one), none is on a row the   *)
(* loop has yet to reach, and the status of every attempt that returned is *)
(* in the table from its own step on, so before any later attempt.         *)
(***************************************************************************)
C21_OneAtATimeInOrder ==
    /\ \A k, l \in 1..Len(log) : k < l => log[k].row < log[l].row
    /\ \A k \in 1..Len(log) : log[k].row <= idx
    /\ \A k \in ReturnedCalls :
        /\ log[k].row < idx
        /\ NonEmpty(df[log[k].row].status)

\* The loop is still running after two attempts with a passed-over row between.
C21_Witness ==
    /\ pc = "loop" /\ Len(log) = 2
    /\ log[1].row + 1 < log[2].row
    /\ df[log[1].row].status # loaded[log[1].row].status

(***************************************************************************)
(* C22, as stated: in a run of main.py every delay is followed by another  *)
(* attempt later in the same run.                                          *)
(***************************************************************************)
C22_AsStated ==
    (script = "main" /\ RunOver) =>
        \A s \in 1..Len(sleeps) : \E k \in 1..Len(log) : log[k].row > sleeps[s]

(***************************************************************************)
(* C22, amended: main.py sleeps after an attempted row exactly when that   *)
(* row is not the last row of the table and the attempts of the run so far *)
(* are fewer than the cap.                                                 *)
(***************************************************************************)
C22_DelayRule ==
    script = "main" =>
        /\ \A s \in 1..Len(sleeps) : \E k \in ReturnedCalls : log[k].row = sleeps[s]
        /\ \A k \in ReturnedCalls :
                (\E s \in 1..Len(sleeps) : sleeps[s] = log[k].row)
                    <=> (log[k].row < Len(df) /\ k < MAX_EMAILS_PER_RUN)

\* A saved run slept after its last attempt: the rows after it had a status.
C22_Witness ==
    /\ script = "main" /\ RunOver /\ lastEnd = "saved"
    /\ Len(sleeps) > 0
    /\ \A k \in 1..Len(log) : log[k].row <= sleeps[Len(sleeps)]
    /\ sleeps[Len(sleeps)] < Len(df)

(***************************************************************************)
(* C23, as stated: once a test-mode run of main.py is over, every row it   *)
(* previewed has a non-empty status in storage; and a run that loads a row *)
(* with the status of a preview does not attempt it.                       *)
(***************************************************************************)
Previewed == {log[k].row : k \in {j \in ReturnedCalls : log[j].success}}

C23_AsStated ==
    script = "main" =>
        /\ (TEST_MODE /\ RunOver) => \A i \in Previewed : NonEmpty(file[i].status)
        /\ \A i \in 1..Len(loaded) :
                loaded[i].status = Cell(TestModeStatus) => i \notin AttemptedRows

\* main.py line 533: the figure printed as 'Remaining' in the summary.
Remaining == pending_emails - emails_sent_this_run

\* The rows of the stored table whose trimmed status is still empty.
StillEmpty == {i \in 1..Len(file) : ~NonEmpty(file[i].status)}

(***************************************************************************)
(* C24, as stated: when a run of main.py prints its summary, successful    *)
(* plus failed equals the number of attempts, and the figure 'Remaining'   *)
(* is the number of rows whose trimmed status is still empty, and is never *)
(* negative.                                                               *)
(***************************************************************************)
C24_AsStated ==
    (script = "main" /\ RunOver /\ lastEnd = "saved") =>
        /\ successful_emails + failed_emails = Len(log)
        /\ Remaining = Cardinality(StillEmpty)
        /\ Remaining >= 0

(***************************************************************************)
(* C25, as stated, in the two consequences a state can show.  With a cap   *)
(* of at least 1, runs of main.py over the stored table come to a table    *)
(* without an empty trimmed status: so a run that ends normally without    *)
(* attempting any row, after which every further run is the same run       *)
(* again, has such a table in storage.  And a run that loads such a table  *)
(* calls the delivery channel zero times and leaves storage as it was.     *)
(***************************************************************************)
Completed(table) == \A i \in 1..Len(table) : NonEmpty(table[i].status)

NothingAttempted == lastEnd \in {"saved", "nopending"} /\ Len(log) = 0

C25_AsStated ==
    (script = "main" /\ MAX_EMAILS_PER_RUN >= 1 /\ RunOver) =>
        /\ NothingAttempted => Completed(file)
        /\ Completed(loaded) => (Len(log) = 0 /\ Reloaded = loaded)

====
